---- MODULE Spec2Model ----
(***************************************************************************)
(* State-machine model of "Plataforma de Historias" (server.js): the       *)
(* SQLite store (users, stories, favorites, messages, announcements), the  *)
(* Express handlers (each synchronous handler is one atomic step of the    *)
(* single-threaded event loop; each async handler is split at its await),  *)
(* and the Socket.IO chat hub.                                             *)
(***************************************************************************)
EXTENDS Integers, Sequences, FiniteSets, TLC

VARIABLES
    users,          \* table users: set of rows
    stories,        \* table stories: set of rows
    favorites,      \* table favorites: set of rows
    messages,       \* table messages: rows in insertion order
    announcements,  \* table announcements: set of rows
    nextId,         \* the next value uid() returns (uid() values are fresh)
    clock,          \* Date.now(), in hours
    nreq,           \* number of HTTP requests received so far
    pending,        \* async handlers suspended at await bcrypt.hash / bcrypt.compare
    resp,           \* the HTTP response most recently sent (with its request)
    lost,           \* requests whose handler ended without sending a response
    socks,          \* state of each Socket.IO connection: "new", "open", "closed"
    rooms,          \* Socket.IO adapter: the rooms each socket is in
    inbox,          \* the events the server emitted to each socket, in order
    joined,         \* history: the rooms each open socket has joined since it connected
    crashed,        \* the node process died on an uncaught exception
    failed          \* the sockets whose 'message' handler threw at the INSERT

vars == <<users, stories, favorites, messages, announcements, nextId, clock,
          nreq, pending, resp, lost, socks, rooms, inbox, joined, crashed,
          failed>>

storeVars == <<users, stories, favorites, messages, announcements>>
hubVars == <<socks, rooms, inbox, joined, failed>>

\* ------------------------------------------------------------------ bounds
MaxReqs == 3        \* HTTP requests per run (content routes)
MaxGuardReqs == 2   \* HTTP requests per run (routes behind authMiddleware, all headers)
MaxAuthReqs == 3    \* HTTP requests per run (register, login, setup-admin)
MaxTicks == 1       \* clock ticks per run
MaxConns == 2       \* Socket.IO connections per run
MaxMsgs == 2        \* chat events handled per run
MaxSearches == 2    \* GET /api/stories requests per run (search)

\* ------------------------------------------------------------ JS / SQL values
None == <<>>                    \* SQL NULL / JS null or undefined
Some(v) == <<v>>
Val(o) == o[1]

NoSuchId == 0                   \* an id that no row carries (uid() starts at 1)
TokenTTL == 12                  \* expiresIn:'12h'
JWT_SECRET == "troca_essa_chave_ja"
StartClock == TokenTTL + 1      \* the server starts when earlier tokens may have expired

\* now(): seconds resolution is not needed, the clock counts hours
now == clock

\* ----------------------------------------------------------- password codec
\* bcrypt.hash(p, 10): a salted one-way hash; the salt is fresh per call
hashPassword(p, salt) == [salt |-> salt, of |-> p]
\* mutant: password === user.password, equal only to an unsalted stored value
comparePassword_PlainEquals(p, h) == h.of = p /\ h.salt = 0

\* bcrypt.compare(p, h)
comparePassword(p, h) == h.of = p
NoHash == [salt |-> 0, of |-> ""]

\* -------------------------------------------------------------- token codec
\* HS256 over the payload under a key
Mac(sub, role, exp, key) == <<sub, role, exp, key>>
\* jwt.sign({sub, role}, JWT_SECRET, {expiresIn:'12h'}) at time iat
SignAt(sub, role, iat) ==
    [sub |-> sub, role |-> role, exp |-> iat + TokenTTL,
     mac |-> Mac(sub, role, iat + TokenTTL, JWT_SECRET)]
signToken(user) == SignAt(user.id, user.role, now)
NoTok == [sub |-> NoSuchId, role |-> "", exp |-> 0, mac |-> None]

\* Authorization header: absent, not a JWT, or 'Bearer <jwt>'
NoAuth == [kind |-> "none", tok |-> NoTok]
Garbage == [kind |-> "garbage", tok |-> NoTok]
Bearer(t) == [kind |-> "bearer", tok |-> t]

\* mutant: jwt.decode, which reads the payload without checking the signature
verifyToken_DecodeOnly(h) ==
    IF h.kind # "bearer" THEN None
    ELSE IF now >= h.tok.exp THEN None
    ELSE Some(h.tok)

\* mutant: jwt.verify with ignoreExpiration
verifyToken_IgnoreExpiration(h) ==
    IF h.kind # "bearer" THEN None
    ELSE IF h.tok.mac # Mac(h.tok.sub, h.tok.role, h.tok.exp, JWT_SECRET) THEN None
    ELSE Some(h.tok)

\* jwt.verify(token, JWT_SECRET) inside try/catch: the payload, or null
verifyToken(h) ==
    IF h.kind # "bearer" THEN None
    ELSE IF h.tok.mac # Mac(h.tok.sub, h.tok.role, h.tok.exp, JWT_SECRET) THEN None
    ELSE IF now >= h.tok.exp THEN None
    ELSE Some(h.tok)

\* ------------------------------------------------------------------- store
UserWithId(id) == {u \in users : u.id = id}
UserWithEmail(e) == {u \in users : u.email = e}
Admins == {u \in users : u.role = "admin"}

\* mutant: the schema without UNIQUE on email and username
UsersUniqueOK_PrimaryKeyOnly(row) == \A u \in users : u.id # row.id

\* mutant: the users table created without any constraint
UsersUniqueOK_NoConstraint(row) == TRUE

\* mutant: the schema without UNIQUE on username
UsersUniqueOK_EmailOnly(row) ==
    \A u \in users : u.id # row.id /\ u.email # row.email

\* users: id PRIMARY KEY, email UNIQUE, username UNIQUE (NULLs never collide)
UsersUniqueOK(row) ==
    \A u \in users :
        /\ u.id # row.id
        /\ u.email # row.email
        /\ (row.username # None => u.username # row.username)

\* ---------------------------------------------------------------- responses
NoResp ==
    [rid |-> 0, op |-> "none", status |-> 0, error |-> "", auth |-> NoAuth,
     user |-> None, email |-> "", password |-> "", username |-> None,
     storyId |-> NoSuchId, token |-> None, action |-> "", type |-> None,
     price |-> None, amount |-> None, rows |-> {}, q |-> <<>>]

Req(op) == [NoResp EXCEPT !.rid = nreq + 1, !.op = op]

\* an async handler suspended at its await
Suspended(rid, op, email, password, name, username, row) ==
    [rid |-> rid, op |-> op, email |-> email, password |-> password,
     name |-> name, username |-> username, row |-> row]
NoRow ==
    [id |-> NoSuchId, email |-> "", password |-> NoHash, name |-> None,
     username |-> None, role |-> "", createdAt |-> 0]

\* x || null
OrNull(s) == IF s = "" THEN None ELSE Some(s)

\* ------------------------------------------------------------------ inputs
Emails == {"", "a@x", "admin@local"}
Passwords == {"", "p1", "p2"}
Usernames == {"", "ana", "admin"}
Names == {""}

\* ----------------------------------------------------------- Init
Init ==
    /\ users = {}
    /\ stories = {}
    /\ favorites = {}
    /\ messages = <<>>
    /\ announcements = {}
    /\ nextId = 1
    /\ clock = StartClock
    /\ nreq = 0
    /\ pending = {}
    /\ resp = NoResp
    /\ lost = {}
    /\ socks = [c \in 1..MaxConns |-> "new"]
    /\ rooms = [c \in 1..MaxConns |-> {}]
    /\ inbox = [c \in 1..MaxConns |-> <<>>]
    /\ joined = [c \in 1..MaxConns |-> {}]
    /\ crashed = FALSE
    /\ failed = {}

CanReceive == ~crashed

\* ------------------------------------------------- POST /api/auth/register
\* the synchronous part, up to await hashPassword(password)
RegisterBegin(email, password, name, username) ==
    /\ CanReceive
    /\ nreq' = nreq + 1
    /\ IF email = "" \/ password = ""
       THEN /\ resp' = [Req("register") EXCEPT !.status = 400,
                           !.error = "missing email or password",
                           !.email = email, !.password = password,
                           !.username = OrNull(username)]
            /\ UNCHANGED pending
       ELSE /\ pending' = pending \cup
                   {Suspended(nreq + 1, "register", email, password, name, username, NoRow)}
            /\ UNCHANGED resp
    /\ UNCHANGED <<storeVars, nextId, clock, lost, hubVars, crashed>>

\* the continuation: INSERT inside try/catch, then signToken
RegisterFinish(p) ==
    /\ ~crashed
    /\ p \in pending /\ p.op = "register"
    /\ pending' = pending \ {p}
    /\ LET row == [id |-> nextId, email |-> p.email,
                   password |-> hashPassword(p.password, p.rid),
                   name |-> OrNull(p.name), username |-> OrNull(p.username),
                   role |-> "user", createdAt |-> now]
           base == [NoResp EXCEPT !.rid = p.rid, !.op = "register",
                       !.email = p.email, !.password = p.password,
                       !.username = OrNull(p.username)]
       IN  IF UsersUniqueOK(row)
           THEN /\ users' = users \cup {row}
                /\ nextId' = nextId + 1
                /\ resp' = [base EXCEPT !.status = 200, !.user = Some(row.id),
                               !.token = Some(signToken(row))]
           ELSE /\ resp' = [base EXCEPT !.status = 400,
                               !.error = "email or username exists"]
                /\ UNCHANGED <<users, nextId>>
    /\ UNCHANGED <<stories, favorites, messages, announcements, clock, nreq,
                   lost, hubVars, crashed>>

\* ------------------------------------------------------ GET /setup-admin
SetupAdminBegin ==
    /\ CanReceive
    /\ nreq' = nreq + 1
    /\ IF Admins # {}
       THEN /\ resp' = [Req("setup-admin") EXCEPT !.status = 200,
                           !.error = "admin exists"]
            /\ UNCHANGED pending
       ELSE /\ pending' = pending \cup
                   {Suspended(nreq + 1, "setup-admin", "admin@local", "admin123",
                              "Admin", "admin", NoRow)}
            /\ UNCHANGED resp
    /\ UNCHANGED <<storeVars, nextId, clock, lost, hubVars, crashed>>

\* the continuation: INSERT with no try/catch.  A UNIQUE failure rejects the
\* async handler's promise: no response is sent, and the unhandled rejection
\* ends the process or not, depending on the node version.
SetupAdminFinish(p) ==
    /\ ~crashed
    /\ p \in pending /\ p.op = "setup-admin"
    /\ pending' = pending \ {p}
    /\ LET row == [id |-> nextId, email |-> p.email,
                   password |-> hashPassword(p.password, p.rid),
                   name |-> Some(p.name), username |-> Some(p.username),
                   role |-> "admin", createdAt |-> now]
       IN  IF UsersUniqueOK(row)
           THEN /\ users' = users \cup {row}
                /\ nextId' = nextId + 1
                /\ resp' = [NoResp EXCEPT !.rid = p.rid, !.op = "setup-admin",
                               !.status = 200, !.error = "admin created",
                               !.email = p.email]
                /\ UNCHANGED <<lost, crashed>>
           ELSE /\ lost' = lost \cup {p.rid}
                /\ crashed' \in BOOLEAN
                /\ UNCHANGED <<users, nextId, resp>>
    /\ UNCHANGED <<stories, favorites, messages, announcements, clock, nreq, hubVars>>

\* ---------------------------------------------------- POST /api/auth/login
\* mutant: the unknown email answered 404 'user not found'
LoginFailure_TellsWhich(r, why) ==
    IF why = "no row" THEN [r EXCEPT !.status = 404, !.error = "user not found"]
    ELSE [r EXCEPT !.status = 401, !.error = "invalid"]

\* res.status(401).json({ error:'invalid' }), sent when the SELECT finds no
\* row and when comparePassword fails
LoginFailure(r, why) == [r EXCEPT !.status = 401, !.error = "invalid"]

\* the synchronous part: validation and the row lookup, up to await comparePassword
LoginBegin(email, password) ==
    /\ CanReceive
    /\ nreq' = nreq + 1
    /\ LET base == [Req("login") EXCEPT !.email = email, !.password = password]
       IN  IF email = "" \/ password = ""
           THEN /\ resp' = [base EXCEPT !.status = 400, !.error = "missing"]
                /\ UNCHANGED pending
           ELSE IF UserWithEmail(email) = {}
           THEN /\ resp' = LoginFailure(base, "no row")
                /\ UNCHANGED pending
           ELSE /\ pending' = pending \cup
                       {Suspended(nreq + 1, "login", email, password, "", "",
                                  CHOOSE u \in UserWithEmail(email) : TRUE)}
                /\ UNCHANGED resp
    /\ UNCHANGED <<storeVars, nextId, clock, lost, hubVars, crashed>>

\* the continuation: the comparison's result, then signToken
LoginFinish(p) ==
    /\ ~crashed
    /\ p \in pending /\ p.op = "login"
    /\ pending' = pending \ {p}
    /\ LET base == [NoResp EXCEPT !.rid = p.rid, !.op = "login",
                       !.email = p.email, !.password = p.password]
       IN  IF ~comparePassword(p.password, p.row.password)
           THEN resp' = LoginFailure(base, "bad password")
           ELSE resp' = [base EXCEPT !.status = 200, !.user = Some(p.row.id),
                            !.token = Some(signToken(p.row))]
    /\ UNCHANGED <<storeVars, nextId, clock, nreq, lost, hubVars, crashed>>

\* Date.now() advances
Tick ==
    /\ ~crashed
    /\ clock < StartClock + MaxTicks
    /\ clock' = clock + 1
    /\ UNCHANGED <<storeVars, nextId, nreq, pending, resp, lost, hubVars, crashed>>

\* --------------------------------------------------------- authMiddleware
\* '' when the request passes, else the error sent with status 401
AuthError(h) ==
    IF h.kind = "none" THEN "no token"
    ELSE IF verifyToken(h) = None THEN "invalid token"
    ELSE IF UserWithId(Val(verifyToken(h)).sub) = {} THEN "user not found"
    ELSE ""

\* req.user: the row SELECTed by the token's sub (role comes from the row)
ReqUser(h) == CHOOSE u \in UserWithId(Val(verifyToken(h)).sub) : TRUE

\* a request to a protected route, and its 401 response
PReq(op, h) == [Req(op) EXCEPT !.auth = h]
Reject(op, h) == [PReq(op, h) EXCEPT !.status = 401, !.error = AuthError(h)]
Passed(op, h) == [PReq(op, h) EXCEPT !.user = Some(ReqUser(h).id)]

\* ------------------------------------------------------------ GET /api/me
GetMe(h) ==
    /\ CanReceive
    /\ nreq' = nreq + 1
    /\ resp' = IF AuthError(h) # "" THEN Reject("me", h)
               ELSE [Passed("me", h) EXCEPT !.status = 200,
                        !.email = ReqUser(h).email]
    /\ UNCHANGED <<storeVars, nextId, clock, pending, lost, hubVars, crashed>>

\* ------------------------------------------------------ POST /api/stories
StoryWithId(id) == {s \in stories : s.id = id}

\* type||'leia'
TypeOrDefault(type) == IF type = "" THEN "leia" ELSE type
\* price||null: undefined, null and 0 are stored as NULL
PriceOrNull(price) == IF price = None \/ price = Some(0) THEN None ELSE price

\* mutant: the first two bound values of the INSERT exchanged
StoryRow_IdAsAuthor(id, author, title, body, type, price) ==
    [id |-> author, authorId |-> id, title |-> title, excerpt |-> <<>>,
     body |-> body, tags |-> "[]", type |-> TypeOrDefault(type),
     price |-> PriceOrNull(price), likes |-> 0, createdAt |-> now]

\* INSERT INTO stories: .run(id, req.user.id, title, '', body, '[]', type||'leia', price||null, 0, now())
StoryRow(id, author, title, body, type, price) ==
    [id |-> id, authorId |-> author, title |-> title, excerpt |-> <<>>,
     body |-> body, tags |-> "[]", type |-> TypeOrDefault(type),
     price |-> PriceOrNull(price), likes |-> 0, createdAt |-> now]

CreateStory(h, title, body, type, price) ==
    /\ CanReceive
    /\ nreq' = nreq + 1
    /\ IF AuthError(h) # ""
       THEN /\ resp' = Reject("create", h)
            /\ UNCHANGED <<stories, nextId>>
       ELSE IF title = <<>> \/ body = <<>>
       THEN /\ resp' = [Passed("create", h) EXCEPT !.status = 400,
                           !.error = "missing title/body"]
            /\ UNCHANGED <<stories, nextId>>
       ELSE LET row == StoryRow(nextId, ReqUser(h).id, title, body, type, price)
            IN  /\ stories' = stories \cup {row}
                /\ nextId' = nextId + 1
                /\ resp' = [Passed("create", h) EXCEPT !.status = 200,
                               !.storyId = row.id, !.type = Some(type),
                               !.price = price, !.rows = {row}]
    /\ UNCHANGED <<users, favorites, messages, announcements, clock, pending,
                   lost, hubVars, crashed>>

\* ----------------------------------------------------- GET /api/stories
\* strings that are searched are sequences of characters
Lower(ch) == CASE ch = "T" -> "t" [] ch = "B" -> "b" [] OTHER -> ch

\* SQLite's LIKE: % matches any run of characters, _ matches one character,
\* letters match without regard to case
RECURSIVE Like(_, _)
Like(pat, str) ==
    IF pat = <<>> THEN str = <<>>
    ELSE IF Head(pat) = "%"
    THEN Like(Tail(pat), str) \/ (str # <<>> /\ Like(pat, Tail(str)))
    ELSE /\ str # <<>>
         /\ (Head(pat) = "_" \/ Lower(Head(pat)) = Lower(Head(str)))
         /\ Like(Tail(pat), Tail(str))

\* WHERE title LIKE ? OR excerpt LIKE ? OR body LIKE ?, with pat = `%${q}%`
Matching(q) ==
    LET pat == <<"%">> \o q \o <<"%">>
    IN  {s \in stories : Like(pat, s.title) \/ Like(pat, s.excerpt) \/ Like(pat, s.body)}

\* (req.query.q||'').trim(): spaces at both ends removed
RECURSIVE TrimStart(_)
TrimStart(str) ==
    IF str # <<>> /\ Head(str) = " " THEN TrimStart(Tail(str)) ELSE str
RECURSIVE TrimEnd(_)
TrimEnd(str) ==
    IF str # <<>> /\ str[Len(str)] = " "
    THEN TrimEnd(SubSeq(str, 1, Len(str) - 1)) ELSE str
Trim(str) == TrimEnd(TrimStart(str))

\* rows holds the result as a set (ORDER BY createdAt DESC is not modelled);
\* query is req.query.q as the client sent it
ListStories(query) ==
    /\ CanReceive
    /\ nreq' = nreq + 1
    /\ LET q == Trim(query)
       IN  resp' = [Req("list") EXCEPT !.status = 200, !.q = query,
                       !.rows = IF q # <<>> THEN Matching(q) ELSE stories]
    /\ UNCHANGED <<storeVars, nextId, clock, pending, lost, hubVars, crashed>>

\* ------------------------------------------------- GET /api/stories/:id
GetStory(id) ==
    /\ CanReceive
    /\ nreq' = nreq + 1
    /\ resp' = IF StoryWithId(id) = {}
               THEN [Req("get") EXCEPT !.status = 404, !.error = "not found",
                        !.storyId = id]
               ELSE [Req("get") EXCEPT !.status = 200, !.storyId = id,
                        !.rows = StoryWithId(id)]
    /\ UNCHANGED <<storeVars, nextId, clock, pending, lost, hubVars, crashed>>

\* ---------------------------------------------- DELETE /api/stories/:id
\* mutant: no ownership check
MayDelete_Anyone(s, user) == TRUE

\* s.authorId !== req.user.id && req.user.role !== 'admin' is refused
MayDelete(s, user) == s.authorId = user.id \/ user.role = "admin"

\* mutant: a DELETE whose WHERE clause matches no row
StoriesWithout_NoMatch(id) == stories

\* mutant: DELETE FROM stories without its WHERE clause
StoriesWithout_Everything(id) == {}

\* DELETE FROM stories WHERE id = ?
StoriesWithout(id) == {x \in stories : x.id # id}

DeleteStory(h, id) ==
    /\ CanReceive
    /\ nreq' = nreq + 1
    /\ IF AuthError(h) # ""
       THEN /\ resp' = [Reject("delete", h) EXCEPT !.storyId = id]
            /\ UNCHANGED stories
       ELSE IF StoryWithId(id) = {}
       THEN /\ resp' = [Passed("delete", h) EXCEPT !.status = 404,
                           !.error = "not found", !.storyId = id]
            /\ UNCHANGED stories
       ELSE LET s == CHOOSE x \in StoryWithId(id) : TRUE
            IN  IF ~MayDelete(s, ReqUser(h))
                THEN /\ resp' = [Passed("delete", h) EXCEPT !.status = 403,
                                    !.error = "not allowed", !.storyId = id]
                     /\ UNCHANGED stories
                ELSE /\ stories' = StoriesWithout(id)
                     /\ resp' = [Passed("delete", h) EXCEPT !.status = 200,
                                    !.storyId = id]
    /\ UNCHANGED <<users, favorites, messages, announcements, nextId, clock,
                   pending, lost, hubVars, crashed>>

\* ------------------------------------------ POST /api/stories/:id/favorite
\* mutant: the lookup compares the wrong column
FavoritesOf_WrongColumn(userId, storyId) ==
    {f \in favorites : f.userId = userId /\ f.id = storyId}

\* SELECT * FROM favorites WHERE userId = ? AND storyId = ?
FavoritesOf(userId, storyId) ==
    {f \in favorites : f.userId = userId /\ f.storyId = storyId}

\* mutant: the two branches report each other's action
ToggleAction_Swapped(existing) == IF existing # {} THEN "added" ELSE "removed"

\* the action reported: 'removed' if(existing), else 'added'
ToggleAction(existing) == IF existing # {} THEN "removed" ELSE "added"

ToggleFavorite(h, storyId) ==
    /\ CanReceive
    /\ nreq' = nreq + 1
    /\ IF AuthError(h) # ""
       THEN /\ resp' = [Reject("favorite", h) EXCEPT !.storyId = storyId]
            /\ UNCHANGED <<favorites, nextId>>
       ELSE LET existing == FavoritesOf(ReqUser(h).id, storyId)
            IN  IF existing # {}
                THEN /\ \E e \in existing :
                            favorites' = {f \in favorites : f.id # e.id}
                     /\ resp' = [Passed("favorite", h) EXCEPT !.status = 200,
                                    !.storyId = storyId,
                                    !.action = ToggleAction(existing)]
                     /\ UNCHANGED nextId
                ELSE /\ favorites' = favorites \cup
                            {[id |-> nextId, userId |-> ReqUser(h).id,
                              storyId |-> storyId, createdAt |-> now]}
                     /\ nextId' = nextId + 1
                     /\ resp' = [Passed("favorite", h) EXCEPT !.status = 200,
                                    !.storyId = storyId,
                                    !.action = ToggleAction(existing)]
    /\ UNCHANGED <<users, stories, messages, announcements, clock, pending,
                   lost, hubVars, crashed>>

\* ------------------------------------------------------ POST /api/checkout
\* mutant: the price test left out
ForSale_Unchecked(story) == TRUE

\* !story.price is false: the stored price is neither NULL nor 0
ForSale(story) == story.price # None /\ story.price # Some(0)

Checkout(h, storyId) ==
    /\ CanReceive
    /\ nreq' = nreq + 1
    /\ resp' =
          IF AuthError(h) # "" THEN [Reject("checkout", h) EXCEPT !.storyId = storyId]
          ELSE IF StoryWithId(storyId) = {}
          THEN [Passed("checkout", h) EXCEPT !.status = 404,
                   !.error = "story not found", !.storyId = storyId]
          ELSE LET story == CHOOSE x \in StoryWithId(storyId) : TRUE
               IN  IF ~ForSale(story)
                   THEN [Passed("checkout", h) EXCEPT !.status = 400,
                            !.error = "not for sale", !.storyId = storyId]
                   ELSE [Passed("checkout", h) EXCEPT !.status = 200,
                            !.storyId = storyId, !.amount = story.price]
    /\ UNCHANGED <<storeVars, nextId, clock, pending, lost, hubVars, crashed>>

\* ------------------------------------------------ POST /api/admin/announce
\* mutant: the role test left out
MayAnnounce_Anyone(user) == TRUE

\* req.user.role !== 'admin' is false
MayAnnounce(user) == user.role = "admin"

Announce(h, message, pinned) ==
    /\ CanReceive
    /\ nreq' = nreq + 1
    /\ IF AuthError(h) # ""
       THEN /\ resp' = Reject("announce", h)
            /\ UNCHANGED <<announcements, nextId>>
       ELSE IF ~MayAnnounce(ReqUser(h))
       THEN /\ resp' = [Passed("announce", h) EXCEPT !.status = 403,
                           !.error = "not allowed"]
            /\ UNCHANGED <<announcements, nextId>>
       ELSE /\ announcements' = announcements \cup
                   {[id |-> nextId, authorId |-> ReqUser(h).id, message |-> message,
                     pinned |-> IF pinned THEN 1 ELSE 0, createdAt |-> now]}
            /\ nextId' = nextId + 1
            /\ resp' = [Passed("announce", h) EXCEPT !.status = 200]
    /\ UNCHANGED <<users, stories, favorites, messages, clock, pending, lost,
                   hubVars, crashed>>

\* ---------------------------------------------------------------- SpecAuth
NextAuth ==
    \/ nreq < MaxAuthReqs
          /\ \E e \in Emails, pw \in Passwords, n \in Names, u \in Usernames :
                 RegisterBegin(e, pw, n, u)
    \/ \E p \in pending : RegisterFinish(p)
    \/ nreq < MaxAuthReqs /\ SetupAdminBegin
    \/ \E p \in pending : SetupAdminFinish(p)
    \/ nreq < MaxAuthReqs /\ \E e \in Emails, pw \in Passwords : LoginBegin(e, pw)
    \/ \E p \in pending : LoginFinish(p)

SpecAuth == Init /\ [][NextAuth]_vars

\* ------------------------------------------------------------- SpecContent
\* data.db persists between runs: the server opens the tables as an earlier
\* run left them.  Three accounts exist (two users and the seeded admin) and
\* clients still hold tokens issued to them by that run under the same secret.
SeedUser(id, email, username, role) ==
    [id |-> id, email |-> email, password |-> hashPassword("p1", id),
     name |-> None, username |-> username, role |-> role,
     createdAt |-> StartClock - TokenTTL]
Ana == SeedUser(1, "a@x", Some("ana"), "user")
Bia == SeedUser(2, "b@x", None, "user")
Adm == SeedUser(3, "admin@local", Some("admin"), "admin")

InitContent ==
    /\ users = {Ana, Bia, Adm}
    /\ joined = [c \in 1..MaxConns |-> {}]
    /\ stories = {}
    /\ favorites = {}
    /\ messages = <<>>
    /\ announcements = {}
    /\ nextId = 4
    /\ clock = StartClock
    /\ nreq = 0
    /\ pending = {}
    /\ resp = NoResp
    /\ lost = {}
    /\ socks = [c \in 1..MaxConns |-> "new"]
    /\ rooms = [c \in 1..MaxConns |-> {}]
    /\ inbox = [c \in 1..MaxConns |-> <<>>]
    /\ joined = [c \in 1..MaxConns |-> {}]
    /\ crashed = FALSE
    /\ failed = {}

\* tokens a client may present: issued by login at some earlier time (one of
\* them expired when the server starts, one expiring at the first tick), issued
\* to an account whose row is gone, with the payload altered after signing, or
\* signed under another key
IssueTimes == {StartClock - TokenTTL, StartClock - TokenTTL + 1, StartClock}
IssuedTokens ==
    {SignAt(Ana.id, Ana.role, iat) : iat \in IssueTimes}
        \cup {SignAt(Bia.id, Bia.role, StartClock), SignAt(Adm.id, Adm.role, StartClock)}
OrphanToken == SignAt(NoSuchId, "user", StartClock)
TamperedToken == [SignAt(Ana.id, Ana.role, StartClock) EXCEPT !.role = "admin"]
ForgedToken ==
    [sub |-> Adm.id, role |-> "admin", exp |-> StartClock + TokenTTL,
     mac |-> Mac(Adm.id, "admin", StartClock + TokenTTL, "outra_chave")]
AuthHeaders ==
    {NoAuth, Garbage}
        \cup {Bearer(t) : t \in IssuedTokens \cup {OrphanToken, TamperedToken, ForgedToken}}

\* request inputs
Titles == {<<>>, <<"T">>}
Bodies == {<<>>, <<"B">>}
Types == {"", "doar", "venda"}
Prices == {None, Some(0), Some(5)}
Queries == {<<>>, <<"t">>, <<"z">>}
\* ids a client may name in a URL: those of the stories, those it was last
\* answered about or has favorited, and one that uid() never returned
IdInputs ==
    {s.id : s \in stories} \cup {f.storyId : f \in favorites}
        \cup {resp.storyId, NoSuchId}

\* the tokens the three accounts hold when the server starts
UserHeaders ==
    {Bearer(SignAt(u.id, u.role, StartClock)) : u \in {Ana, Bia, Adm}}

NextContent ==
    /\ nreq < MaxReqs
    /\ \/ \E h \in UserHeaders, t \in Titles, b \in Bodies, ty \in Types, pr \in Prices :
              CreateStory(h, t, b, ty, pr)
       \/ \E id \in IdInputs : GetStory(id)
       \/ \E q \in Queries : ListStories(q)
       \/ \E h \in UserHeaders, id \in IdInputs : DeleteStory(h, id)
       \/ \E h \in UserHeaders, id \in IdInputs : ToggleFavorite(h, id)
       \/ \E h \in UserHeaders, id \in IdInputs : Checkout(h, id)

SpecContent == InitContent /\ [][NextContent]_vars

\* --------------------------------------------------------------- SpecGuard
\* every protected route, under every kind of Authorization header
\* req.body.type is free text: two values of the editor's list, and one outside it
GuardTypes == {"leia", "venda", "gratis"}

NextGuard ==
    \/ nreq < MaxGuardReqs /\ \E h \in AuthHeaders : GetMe(h)
    \/ nreq < MaxGuardReqs /\ \E h \in AuthHeaders, ty \in GuardTypes :
           CreateStory(h, <<"T">>, <<"B">>, ty, Some(5))
    \/ nreq < MaxGuardReqs /\ \E h \in AuthHeaders, id \in IdInputs : DeleteStory(h, id)
    \/ nreq < MaxGuardReqs /\ \E h \in AuthHeaders, id \in IdInputs : ToggleFavorite(h, id)
    \/ nreq < MaxGuardReqs /\ \E h \in AuthHeaders, id \in IdInputs : Checkout(h, id)
    \/ nreq < MaxGuardReqs /\ \E h \in AuthHeaders, pinned \in BOOLEAN : Announce(h, "aviso", pinned)
    \/ Tick

SpecGuard == InitContent /\ [][NextGuard]_vars

\* -------------------------------------------------------------- SpecSearch
\* GET /api/stories over a stories table written by earlier requests
SeedStory(id, title, body) ==
    [id |-> id, authorId |-> Ana.id, title |-> title, excerpt |-> <<>>,
     body |-> body, tags |-> "[]", type |-> "leia", price |-> None, likes |-> 0,
     createdAt |-> StartClock - 1]
SeedStories ==
    {SeedStory(4, <<"T">>, <<"B">>),
     SeedStory(5, <<"5", "%">>, <<"B">>),
     SeedStory(6, <<"a", "_", "b">>, <<"c">>)}

InitSearch ==
    /\ users = {Ana, Bia, Adm}
    /\ stories \in SUBSET SeedStories
    /\ favorites = {}
    /\ messages = <<>>
    /\ announcements = {}
    /\ nextId = 7
    /\ clock = StartClock
    /\ nreq = 0
    /\ pending = {}
    /\ resp = NoResp
    /\ lost = {}
    /\ socks = [c \in 1..MaxConns |-> "new"]
    /\ rooms = [c \in 1..MaxConns |-> {}]
    /\ inbox = [c \in 1..MaxConns |-> <<>>]
    /\ joined = [c \in 1..MaxConns |-> {}]
    /\ crashed = FALSE
    /\ failed = {}

\* req.query.q: absent, letters, the two LIKE wildcards, a space
SearchQueries == {<<>>, <<"t">>, <<"z">>, <<"c">>, <<"%">>, <<"_">>, <<" ">>}

NextSearch == nreq < MaxSearches /\ \E q \in SearchQueries : ListStories(q)

SpecSearch == InitSearch /\ [][NextSearch]_vars

\* ----------------------------------------------------------- Socket.IO hub
Conns == 1..MaxConns
\* room names: the application's conversation ids, and each socket's own id
\* (Socket.IO puts every socket in the room named by its id when it connects)
Public == <<"public">>
Sid(c) == <<"sid", c>>

\* JS values a client may send as content: a string, or a value that
\* better-sqlite3 refuses to bind (an object, an array, a boolean)
Text(s) == [t |-> "string", v |-> s]
JsObject == [t |-> "object", v |-> ""]
Bindable(x) == x.t = "string"

\* if(!conversationId) conversationId = 'public'
RoomOrPublic(conv) == IF conv = None THEN Public ELSE conv

\* io.on('connection')
Connect(c) ==
    /\ ~crashed
    /\ socks[c] = "new"
    /\ socks' = [socks EXCEPT ![c] = "open"]
    /\ rooms' = [rooms EXCEPT ![c] = {Sid(c)}]
    /\ joined' = [joined EXCEPT ![c] = {Sid(c)}]
    /\ UNCHANGED <<storeVars, nextId, clock, nreq, pending, resp, lost, inbox, crashed,
                   failed>>

\* mutant: the room's stored messages sent to the socket that joins
Join_ReplaysHistory(c, conv) ==
    /\ ~crashed
    /\ socks[c] = "open"
    /\ rooms' = [rooms EXCEPT ![c] = @ \cup {RoomOrPublic(conv)}]
    /\ joined' = [joined EXCEPT ![c] = @ \cup {RoomOrPublic(conv)}]
    /\ inbox' = [inbox EXCEPT ![c] =
                    @ \o SelectSeq(messages,
                                   LAMBDA m : m.conversationId = RoomOrPublic(conv))]
    /\ UNCHANGED <<storeVars, nextId, clock, nreq, pending, resp, lost, socks,
                   crashed, failed>>

\* socket.on('join'): socket.join(conversationId)
Join(c, conv) ==
    /\ ~crashed
    /\ socks[c] = "open"
    /\ rooms' = [rooms EXCEPT ![c] = @ \cup {RoomOrPublic(conv)}]
    /\ joined' = [joined EXCEPT ![c] = @ \cup {RoomOrPublic(conv)}]
    /\ UNCHANGED <<storeVars, nextId, clock, nreq, pending, resp, lost, socks, inbox,
                   crashed, failed>>

\* mutant: the newest event put before the ones already sent
EmitTo_NewestFirst(room, ev) ==
    [d \in Conns |-> IF socks[d] = "open" /\ room \in rooms[d]
                     THEN <<ev>> \o inbox[d] ELSE inbox[d]]

\* mutant: io.emit, a broadcast to every open socket
EmitTo_Everyone(room, ev) ==
    [d \in Conns |-> IF socks[d] = "open" THEN Append(inbox[d], ev) ELSE inbox[d]]

\* io.to(room).emit('message', ev): ev reaches every socket now in the room
EmitTo(room, ev) ==
    [d \in Conns |-> IF socks[d] = "open" /\ room \in rooms[d]
                     THEN Append(inbox[d], ev) ELSE inbox[d]]

\* mutant: the emit placed before the INSERT
PublishInbox_EmitFirst(room, ev, inserted) == EmitTo(room, ev)

\* the inboxes after the handler: the emit runs only when run() has returned
PublishInbox(room, ev, inserted) == IF inserted THEN EmitTo(room, ev) ELSE inbox

\* socket.on('message'): INSERT, then emit.  When run() throws, the exception
\* leaves the handler before the emit; nothing catches it and the process dies.
Publish(c, conv, senderId, content) ==
    /\ ~crashed
    /\ socks[c] = "open"
    /\ Len(messages) < MaxMsgs
    /\ LET room == RoomOrPublic(conv)
           row == [id |-> nextId, conversationId |-> room,
                   senderId |-> IF senderId = None THEN Some("anon") ELSE senderId,
                   content |-> content, createdAt |-> now]
           ev == [id |-> nextId, conversationId |-> room, senderId |-> senderId,
                  content |-> content, createdAt |-> now]
       IN  IF Bindable(content)
           THEN /\ messages' = Append(messages, row)
                /\ nextId' = nextId + 1
                /\ inbox' = PublishInbox(room, ev, TRUE)
                /\ UNCHANGED <<crashed, failed>>
           ELSE /\ crashed' = TRUE
                /\ failed' = failed \cup {c}
                /\ inbox' = PublishInbox(room, ev, FALSE)
                /\ UNCHANGED <<messages, nextId>>
    /\ UNCHANGED <<users, stories, favorites, announcements, clock, nreq, pending,
                   resp, lost, socks, rooms, joined>>

\* mutant: the closed socket left in its rooms
Disconnect_KeepsRooms(c) ==
    /\ ~crashed
    /\ socks[c] = "open"
    /\ socks' = [socks EXCEPT ![c] = "closed"]
    /\ joined' = [joined EXCEPT ![c] = {}]
    /\ UNCHANGED <<storeVars, nextId, clock, nreq, pending, resp, lost, rooms, inbox,
                   crashed, failed>>

\* the transport closes: Socket.IO takes the socket out of every room
Disconnect(c) ==
    /\ ~crashed
    /\ socks[c] = "open"
    /\ socks' = [socks EXCEPT ![c] = "closed"]
    /\ rooms' = [rooms EXCEPT ![c] = {}]
    /\ joined' = [joined EXCEPT ![c] = {}]
    /\ UNCHANGED <<storeVars, nextId, clock, nreq, pending, resp, lost, inbox, crashed,
                   failed>>

\* event inputs
JoinInputs == {None, <<"sala">>}
\* a client can also name the one socket id it knows, its own
ConvInputs(c) == JoinInputs \cup {Sid(c)}
SenderInputs == {None, Some("user")}
ContentInputs == {Text("oi"), JsObject}

NextHub ==
    \/ \E c \in Conns : Connect(c)
    \/ \E c \in Conns, conv \in JoinInputs : Join(c, conv)
    \/ \E c \in Conns, sn \in SenderInputs, ct \in ContentInputs :
           \E conv \in ConvInputs(c) : Publish(c, conv, sn, ct)
    \/ \E c \in Conns : Disconnect(c)

SpecHub == Init /\ [][NextHub]_vars

\* ================================================================== claims

\* a step in which the server sends an HTTP response
Responds == resp' # resp

\* ---- C1 (SpecAuth)
UniqueEmailAndUsername ==
    \A u1 \in users, u2 \in users :
        u1 # u2 => /\ u1.email # u2.email
                   /\ (u1.username # None => u1.username # u2.username)
RegisterGrants ==
    Responds /\ resp'.op = "register" /\ resp'.status = 200
\* C1: whatever the interleaving of register and setup-admin handlers around
\* their password hashing, no two user rows share an email or a non-null
\* username; a registration answers with a token only in a step that inserts
\* the one row of its email, which no earlier row carried, and rows are never
\* removed, so of the registrations of one email at most one gets a token.
C1_UniqueUsers ==
    /\ []UniqueEmailAndUsername
    /\ [][RegisterGrants =>
            /\ UserWithEmail(resp'.email) = {}
            /\ \E u \in users' : /\ users' = users \cup {u}
                                 /\ u.email = resp'.email
                                 /\ u.id = Val(resp'.user)
                                 /\ resp'.token # None]_vars
    /\ [][users \subseteq users']_vars
\* two registrations of one email overlapped: the one answered last with the
\* conflict was received before the one whose row is stored
C1_Witness ==
    /\ resp.op = "register" /\ resp.status = 400
    /\ resp.error = "email or username exists"
    /\ \E u \in users : u.email = resp.email /\ u.password.salt > resp.rid

\* ---- C2 (SpecHub)
DeliveredArePersisted ==
    \A c \in Conns : \A i \in 1..Len(inbox[c]) :
        \E j \in 1..Len(messages) :
            /\ messages[j].id = inbox[c][i].id
            /\ messages[j].conversationId = inbox[c][i].conversationId
            /\ messages[j].content = inbox[c][i].content
\* C2: every 'message' event in any socket's inbox has its row in messages,
\* and a step that adds no row to messages (a failed INSERT among them)
\* delivers nothing to any socket.
C2_PersistBeforeFanout ==
    /\ []DeliveredArePersisted
    /\ [][messages' = messages => inbox' = inbox]_vars
\* a publish failed at its INSERT after an earlier message had been delivered
C2_Witness ==
    /\ crashed
    /\ Len(messages) >= 1
    /\ \E c \in Conns : socks[c] = "open" /\ Len(inbox[c]) >= 1

\* ---- C3 (SpecHub)
Published == Len(messages') = Len(messages) + 1
ProtectedOps == {"me", "create", "delete", "favorite", "checkout", "announce"}
\* the header carries a token signed under the secret, unexpired, whose
\* subject has a row in users
Authentic(h) ==
    /\ h.kind = "bearer"
    /\ h.tok.mac = Mac(h.tok.sub, h.tok.role, h.tok.exp, JWT_SECRET)
    /\ clock < h.tok.exp
    /\ \E u \in users : u.id = h.tok.sub
\* C4: a request to a protected route whose token is missing, malformed,
\* tampered, expired or names no stored user is answered 401 with every table
\* unchanged; one with an authentic token is not answered 401; and no step
\* changes a table except in answering a request with an authentic token.
C4_ProtectedNeedToken ==
    /\ [][(Responds /\ resp'.op \in ProtectedOps) =>
            IF Authentic(resp'.auth)
            THEN resp'.status # 401 /\ resp'.user = Some(resp'.auth.tok.sub)
            ELSE /\ resp'.status = 401
                 /\ resp'.user = None
                 /\ storeVars' = storeVars]_vars
    /\ [][storeVars' # storeVars => Responds /\ Authentic(resp'.auth)]_vars
\* a token that was accepted before the clock reached its expiry is refused
\* after it, with a story already stored
C4_Witness ==
    /\ resp.op \in ProtectedOps /\ resp.status = 401
    /\ resp.error = "invalid token"
    /\ resp.auth.kind = "bearer"
    /\ resp.auth.tok.mac =
           Mac(resp.auth.tok.sub, resp.auth.tok.role, resp.auth.tok.exp, JWT_SECRET)
    /\ resp.auth.tok.exp = StartClock + 1
    /\ \E s \in stories : s.authorId = resp.auth.tok.sub

\* ---- C5 (SpecContent)
RoleOf(id) == {u.role : u \in UserWithId(id)}
\* C5: a delete of a stored story, requested with the token of a user who is
\* neither its author nor an admin, is answered 403 and leaves the stories
\* table, that row included, exactly as it was.
C5_ForbiddenDeleteKeepsItem ==
    [][\A s \in stories :
          (/\ Responds /\ resp'.op = "delete" /\ resp'.storyId = s.id
           /\ resp'.auth.tok.sub # s.authorId
           /\ "admin" \notin RoleOf(resp'.auth.tok.sub))
          => /\ resp'.status = 403
             /\ s \in stories'
             /\ stories' = stories]_vars
C5_Witness ==
    /\ resp.op = "delete" /\ resp.status = 403
    /\ \E s \in stories : s.id = resp.storyId /\ s.authorId # resp.auth.tok.sub

\* ---- C6 (SpecContent)
\* C6: a story whose delete was answered ok is absent from stories; an id
\* that uid() has handed out and that no story carries is never carried by a
\* story again; get of an id that no story carries answers 404; and every row
\* a list or search returns is a stored story.
C6_DeletedStaysGone ==
    /\ [](resp.op = "delete" /\ resp.status = 200 => StoryWithId(resp.storyId) = {})
    /\ [][\A i \in 0..(nextId - 1) :
             StoryWithId(i) = {} => {s \in stories' : s.id = i} = {}]_vars
    /\ [](resp.op = "get" /\ StoryWithId(resp.storyId) = {} => resp.status = 404)
    /\ [](resp.op \in {"get", "list"} => resp.rows \subseteq stories)
\* get of the id of a story that was created and then deleted answers 404
C6_Witness ==
    /\ resp.op = "get" /\ resp.status = 404
    /\ resp.storyId # NoSuchId
    /\ resp.storyId < nextId

\* ---- C7 (SpecContent)
\* C7: the favorites table never holds two rows with the same userId and
\* storyId.
C7_OneFavoritePerPair ==
    \A f1 \in favorites, f2 \in favorites :
        (f1.userId = f2.userId /\ f1.storyId = f2.storyId) => f1 = f2
\* one user's repeated toggles of one story have been handled (the second
\* found the first one's row) while another pair's row is stored
C7_Witness ==
    /\ resp.op = "favorite" /\ resp.action = "removed"
    /\ favorites # {}

\* ---- C8 (SpecContent)
Toggles == Responds /\ resp'.op = "favorite" /\ resp'.status = 200
PairRows(rows, u, i) == {f \in rows : f.userId = u /\ f.storyId = i}
OtherPairs(rows, u, i) == rows \ PairRows(rows, u, i)
\* C8: each toggleFavorite(U, I) flips the membership of (U, I) and reports
\* it: with no row it stores one and answers 'added', with a row it leaves
\* none and answers 'removed'; it changes no other pair's rows, and no other
\* step changes favorites at all.  So two calls in a row, starting with no
\* row, answer 'added' then 'removed' and leave no row.
C8_ToggleTwiceRestores ==
    [][IF Toggles
       THEN LET u == resp'.auth.tok.sub
                i == resp'.storyId
            IN  /\ IF PairRows(favorites, u, i) = {}
                   THEN /\ resp'.action = "added"
                        /\ Cardinality(PairRows(favorites', u, i)) = 1
                   ELSE /\ resp'.action = "removed"
                        /\ PairRows(favorites', u, i) = {}
                /\ OtherPairs(favorites', u, i) = OtherPairs(favorites, u, i)
       ELSE favorites' = favorites]_vars
\* the second of two toggles of one pair answered 'removed' and no row of
\* the pair is left
C8_Witness ==
    /\ resp.op = "favorite" /\ resp.action = "removed"
    /\ FavoritesOf(resp.auth.tok.sub, resp.storyId) = {}
    /\ resp.rid = 2

\* ---- C9 (SpecContent)
\* C9: every stored story has a non-null price if and only if its type is
\* 'venda'.
C9_PriceIffForSale ==
    \A s \in stories : (s.price # None) <=> (s.type = "venda")

\* ---- C10 (SpecContent)
\* C10: every favorites row names a story that is stored.
C10_FavoritesReferenceStories ==
    \A f \in favorites : StoryWithId(f.storyId) # {}

\* ---- C11 (SpecHub)
\* the users a sender identity can name
SenderExists(senderId) == \E u \in users : Some(u.id) = senderId

\* C11: the sender of every persisted message is the anonymous marker or the
\* id of an existing user row, so a publish whose senderId names no user
\* persists no row carrying that senderId.
C11_SendersAreUsersOrAnon ==
    \A j \in 1..Len(messages) :
        messages[j].senderId = Some("anon") \/ SenderExists(messages[j].senderId)

\* ---- C12 (SpecAuth)
\* the rows POST /api/auth/register wrote for email e and password p
RegisteredAs(rows, e, p) ==
    {u \in rows : u.role = "user" /\ u.email = e
                    /\ u.password = hashPassword(p, u.password.salt)}
\* verifyToken accepts t at time at
AcceptedAt(t, at) ==
    t.mac = Mac(t.sub, t.role, t.exp, JWT_SECRET) /\ at < t.exp

\* C12: a register that succeeds leaves a row with its email and password
\* under the id it returns; no later operation removes or alters a row; and
\* every login answered for the email and password of such a row returns
\* 200 with a token that verifyToken accepts and whose subject is the row's id.
C12_LoginAfterRegister ==
    /\ [][Responds /\ resp'.op = "register" /\ resp'.status = 200 =>
            \E u \in RegisteredAs(users', resp'.email, resp'.password) :
                Some(u.id) = resp'.user]_vars
    /\ [][users \subseteq users']_vars
    /\ [][Responds /\ resp'.op = "login"
            /\ RegisteredAs(users, resp'.email, resp'.password) # {} =>
            /\ resp'.status = 200
            /\ resp'.token # None
            /\ AcceptedAt(Val(resp'.token), clock')
            /\ \E u \in RegisteredAs(users, resp'.email, resp'.password) :
                   Val(resp'.token).sub = u.id]_vars
\* a login answered 200 for a registered user after another user registered
C12_Witness ==
    /\ resp.op = "login" /\ resp.status = 200
    /\ \E u \in RegisteredAs(users, resp.email, resp.password) :
           /\ Some(u.id) = resp.user
           /\ \E v \in users : v.id > u.id

\* ---- C13 (SpecAuth)
\* some existing user has email e, or has username un (a register without a
\* username stores NULL, which equals no username)
TakenBy(e, un) ==
    {u \in users : u.email = e \/ (un # None /\ u.username = un)}

\* C13: a register answered while an existing user has its email or its
\* username fails with status 400, leaves users exactly as it was and
\* returns neither a user nor a token; when the request carried an email and
\* a password the error is the conflict error 'email or username exists'.
C13_DuplicateRegisterFails ==
    [][Responds /\ resp'.op = "register"
        /\ TakenBy(resp'.email, resp'.username) # {} =>
        /\ resp'.status = 400
        /\ users' = users
        /\ resp'.token = None /\ resp'.user = None
        /\ (resp'.email # "" /\ resp'.password # "" =>
               resp'.error = "email or username exists")]_vars
\* a register refused for its username alone: nobody has its email
C13_Witness ==
    /\ resp.op = "register" /\ resp.error = "email or username exists"
    /\ \A u \in users : u.email # resp.email
    /\ \E u \in users : u.username = resp.username

\* ---- C14 (SpecAuth)
\* what the client receives: the status line and the JSON body
Body(r) == <<r.status, r.error, r.user, r.token>>
\* the one failure response of login
InvalidCredentials == <<401, "invalid", None, None>>
\* a login request carrying an email and a password that match no user row
NoSuchEmail(r) ==
    r.email # "" /\ r.password # "" /\ UserWithEmail(r.email) = {}
WrongPassword(r) ==
    /\ r.email # "" /\ r.password # ""
    /\ UserWithEmail(r.email) # {}
    /\ \A u \in UserWithEmail(r.email) :
           u.password # hashPassword(r.password, u.password.salt)

\* C14: a login for an email no user has and a login with a password that
\* does not match are both answered with the same response, status 401 and
\* body {error:'invalid'}, which carries no token: nothing in the response
\* tells the two failures apart.
C14_LoginFailuresAlike ==
    [][Responds /\ resp'.op = "login"
        /\ (NoSuchEmail(resp') \/ WrongPassword(resp')) =>
        Body(resp') = InvalidCredentials]_vars
\* a wrong password for an email that is registered
C14_Witness ==
    /\ resp.op = "login" /\ WrongPassword(resp)
    /\ Body(resp) = InvalidCredentials

\* ---- C15 (SpecGuard)
\* t is, field for field, what signToken returned at some time
IssuedAt(t) == t.exp - TokenTTL
Issued(t) == t = SignAt(t.sub, t.role, IssuedAt(t))
Accepts(h) == verifyToken(h) # None

\* C15: verifyToken accepts a header exactly when it carries an unmodified
\* token that signToken produced under JWT_SECRET fewer than 12 hours ago,
\* and then returns that token's payload; every other header gets null; and
\* an accepted token becomes a rejected one only in a step in which the
\* clock reaches its expiry.
C15_VerifyAcceptsIssuedUnexpired ==
    /\ [](\A h \in AuthHeaders :
             /\ Accepts(h) <=> /\ h.kind = "bearer"
                               /\ Issued(h.tok)
                               /\ now - IssuedAt(h.tok) < TokenTTL
             /\ Accepts(h) => verifyToken(h) = Some(h.tok))
    /\ [][\A h \in AuthHeaders :
             Accepts(h) /\ ~Accepts(h)' =>
                 now < h.tok.exp /\ now' >= h.tok.exp]_vars
\* a token that passed authMiddleware in the last request has since expired
C15_Witness ==
    /\ resp.op = "me" /\ resp.status = 200
    /\ Issued(resp.auth.tok)
    /\ ~Accepts(resp.auth)

\* ---- C16 (SpecContent)
\* C16: a checkout that passed authMiddleware is answered 404 'story not
\* found' when no story has the id, 400 'not for sale' when the story's
\* stored price is unset, and otherwise 200 with the stored price as amount
\* and the requested id as storyId; whatever the answer, users, stories,
\* favorites, messages and announcements are left as they were.
C16_CheckoutReadsOnly ==
    [][Responds /\ resp'.op = "checkout" /\ resp'.status # 401 =>
        /\ storeVars' = storeVars
        /\ (StoryWithId(resp'.storyId) = {} =>
               resp'.status = 404 /\ resp'.error = "story not found"
                  /\ resp'.amount = None)
        /\ \A s \in StoryWithId(resp'.storyId) :
               IF s.price = None
               THEN resp'.status = 400 /\ resp'.error = "not for sale"
                       /\ resp'.amount = None
               ELSE resp'.status = 200 /\ resp'.amount = s.price]_vars
\* a checkout of a priced story, answered with its price
C16_Witness ==
    /\ resp.op = "checkout" /\ resp.status = 200
    /\ \E s \in StoryWithId(resp.storyId) : s.price = Some(5) /\ resp.amount = s.price

\* ---- C17 (SpecGuard)
\* C17: the author of every announcement row is a user whose role is admin,
\* and an announce request that passed authMiddleware for a user whose role
\* is not admin is answered 403 'not allowed' and adds no announcement.
C17_OnlyAdminsAnnounce ==
    /\ [](\A a \in announcements :
             \E u \in users : u.id = a.authorId /\ u.role = "admin")
    /\ [][Responds /\ resp'.op = "announce" /\ resp'.user # None
            /\ RoleOf(Val(resp'.user)) # {"admin"} =>
            /\ resp'.status = 403 /\ resp'.error = "not allowed"
            /\ announcements' = announcements]_vars
\* a user was refused after the admin had posted an announcement
C17_Witness ==
    /\ resp.op = "announce" /\ resp.status = 403
    /\ resp.user # None /\ RoleOf(Val(resp.user)) = {"user"}
    /\ announcements # {}

\* ---- C18 (SpecHub)
\* the sockets whose publish failed at its INSERT in this step
FailedNow == failed' \ failed

\* C18: a step in which persisting a published message fails emits one
\* event, the report of the failure, to the socket that published, and
\* emits nothing to any other socket.
C18_FailureReportedToPublisher ==
    [][FailedNow # {} =>
        \A c \in Conns :
            IF c \in FailedNow
            THEN Len(inbox'[c]) = Len(inbox[c]) + 1
            ELSE inbox'[c] = inbox[c]]_vars

\* ---- C19 (SpecHub)
Closed(c) == socks[c] = "closed"

\* C19: a socket that has disconnected is in no room; from then on nothing
\* is delivered to it, whatever is published to the rooms it had joined;
\* and the step in which it disconnects changes no table.
C19_DisconnectedGetNothing ==
    /\ [](\A c \in Conns : Closed(c) => rooms[c] = {})
    /\ [][\A c \in Conns : Closed(c) => inbox'[c] = inbox[c]]_vars
    /\ [][(\E c \in Conns : ~Closed(c) /\ Closed(c)') =>
             storeVars' = storeVars]_vars
\* a socket got the first message of a room, disconnected, and the second
\* message of that room was persisted without reaching it
C19_Witness ==
    /\ Len(messages) = 2
    /\ messages[1].conversationId = messages[2].conversationId
    /\ \E c \in Conns :
           /\ Closed(c)
           /\ Len(inbox[c]) = 1 /\ inbox[c][1].id = messages[1].id
           /\ \E d \in Conns : Len(inbox[d]) = 2

\* ---- C20 (SpecGuard)
\* the editor's list of types
StoryTypes == {"leia", "doar", "venda"}

\* C20: the type of every stored story is one of 'leia', 'doar', 'venda':
\* create stores 'leia' when the request has no type and never stores a
\* value outside the three.
C20_TypeIsOneOfThree == \A s \in stories : s.type \in StoryTypes

\* ---- C21 (SpecGuard)
\* C21: the authorId of every stored story is the id of a row of users.
C21_AuthorsAreUsers == \A s \in stories : UserWithId(s.authorId) # {}
\* a story is stored, and a create carrying a well-signed token whose
\* subject has no users row was refused
C21_Witness ==
    /\ stories # {}
    /\ resp.op = "create" /\ resp.error = "user not found"

\* ---- C22 (SpecHub)
\* the position of the row with this id in the order of persistence
RowIndex(id) == CHOOSE k \in 1..Len(messages) : messages[k].id = id

\* C22: whenever a socket has received two events of the same room, it
\* received them in the order in which their rows were persisted, which is
\* the order of the publishes (each handler inserts and emits in one turn).
C22_DeliveredInPublishOrder ==
    \A c \in Conns : \A i, j \in 1..Len(inbox[c]) :
        i < j /\ inbox[c][i].conversationId = inbox[c][j].conversationId =>
            RowIndex(inbox[c][i].id) < RowIndex(inbox[c][j].id)
\* two sockets have both received the same two messages of one room
C22_Witness ==
    \E c, d \in Conns :
        /\ c # d
        /\ Len(inbox[c]) = 2 /\ inbox[d] = inbox[c]
        /\ inbox[c][1].conversationId = inbox[c][2].conversationId

\* ---- C23 (SpecHub)
\* C23: a socket's inbox grows only in the step that persists a message, by
\* exactly the event of that message, and only when the socket is in the
\* message's room at that step; so a join, like every other step that
\* persists nothing, delivers no message published earlier.
C23_NoReplayOnJoin ==
    [][\A c \in Conns : inbox'[c] # inbox[c] =>
          /\ Published
          /\ Len(inbox'[c]) = Len(inbox[c]) + 1
          /\ SubSeq(inbox'[c], 1, Len(inbox[c])) = inbox[c]
          /\ LET row == messages'[Len(messages')]
                 ev == inbox'[c][Len(inbox'[c])]
             IN  /\ ev.id = row.id
                 /\ row.conversationId \in rooms[c]]_vars
\* a socket is in a room whose one message was published before it joined:
\* another socket has that message, this one has nothing
C23_Witness ==
    /\ Len(messages) = 1
    /\ \E c, d \in Conns :
           /\ messages[1].conversationId \in rooms[c]
           /\ messages[1].conversationId # Sid(c)
           /\ inbox[c] = <<>>
           /\ Len(inbox[d]) = 1

\* ---- C24 (SpecHub)
\* no socket has sent a 'join': each is at most in the room of its own id
NobodyJoined == \A c \in Conns : joined[c] \subseteq {Sid(c)}

\* C24: a message published while its publisher has joined no room is
\* either not persisted or persisted to the default room 'public'; stated
\* for the steps in which no socket at all has joined a room, so that the
\* publisher, whoever it is, has not.
C24_UnjoinedPublishGoesPublic ==
    [][Published /\ NobodyJoined =>
          messages'[Len(messages')].conversationId = Public]_vars

\* ---- C25 (SpecHub)
\* C25: every 'message' event a socket has received is, field for field
\* (id, conversationId, senderId, content, createdAt), a row of messages,
\* also when the publisher gave no senderId or no conversationId.
C25_EventsEqualRows ==
    \A c \in Conns : \A i \in 1..Len(inbox[c]) :
        \E k \in 1..Len(messages) : messages[k] = inbox[c][i]

\* ---- C26 (SpecSearch)
\* q occurs in str as a run of consecutive characters, letters compared
\* without regard to case
Contains(q, str) ==
    \E i \in 0..(Len(str) - Len(q)) :
        \A k \in 1..Len(q) : Lower(q[k]) = Lower(str[i + k])
Containing(q) ==
    {s \in stories : Contains(q, s.title) \/ Contains(q, s.excerpt)
                         \/ Contains(q, s.body)}

\* C26: a list request with a non-empty query is answered with exactly the
\* stories whose title, excerpt or body contains the query as a substring,
\* whatever characters the query is made of, '%' and '_' included.
C26_ListIsSubstringSearch ==
    [][Responds /\ resp'.op = "list" /\ resp'.q # <<>> =>
          resp'.rows = Containing(resp'.q)]_vars

NewUsers == users' \ users

\* C28: at most one user has role admin in every state; no step changes
\* the role of an existing user; a register that succeeds adds a row with
\* role 'user'; and an admin row is added only while there is no admin,
\* also when setup-admin requests overlap at their await.
C28_AtMostOneAdmin ==
    /\ [](Cardinality(Admins) <= 1)
    /\ [][\A u \in users : \E v \in users' : v.id = u.id /\ v.role = u.role]_vars
    /\ [][Responds /\ resp'.op = "register" /\ resp'.status = 200 =>
            NewUsers # {} /\ \A u \in NewUsers : u.role = "user"]_vars
    /\ [][\A u \in NewUsers : u.role = "admin" => Admins = {}]_vars
\* two setup-admin requests overlapped: the first one's row is the admin,
\* the second one's INSERT was refused
C28_Witness ==
    /\ Cardinality(Admins) = 1
    /\ lost # {}

\* ---- C29 (SpecAuth)
\* C29: every request's handler ends by sending its response: no request is
\* left without one when its handler has run to its end, in particular no
\* setup-admin request whose INSERT was refused by a UNIQUE constraint.
C29_EveryRequestAnswered == lost = {}

====
